---- MODULE Spec2Model ----
(***************************************************************************)
(* State-machine model of the AI tutor backend: the MemoryManager over the *)
(* vector store, the TutorAgent, and the FastAPI handlers of api/main.py.  *)
(*                                                                         *)
(* Every handler of main.py is an `async def` that makes only blocking     *)
(* calls and never awaits, so one request runs to completion before the    *)
(* next starts: each handler is one atomic action.                         *)
(*                                                                         *)
(* A text is a sequence of string fragments; concatenation of texts is \o. *)
(***************************************************************************)
EXTENDS Integers, Sequences, FiniteSets, TLC

\* ---------------------------------------------------------------- bounds
\* number of documents the vector store may hold
MaxStore == 2
\* largest k of a direct get_user_context call
MaxK == 2

\* ------------------------------------------------------ program constants
\* get_user_context(..., k: int = 5)
DefaultK == 5
\* ConversationBufferWindowMemory(k=10)
WindowK == 10
\* UserProfile.current_level: int = 1, and users_db.get(...).get("current_level", 1)
DefaultLevel == 1
\* generate_quiz(topic, difficulty: int = 5) of the API
DefaultDifficulty == 5
\* TutorAgent.generate_quiz(..., num_questions: int = 5)
DefaultNumQuestions == 5

\* ------------------------------------------------------------ input sets
\* user ids: the values uuid4 can produce and a chat request can carry
UserIds == {"u1", "u2"}
Names == {"Ada"}
\* the messages of chat requests
Messages == {<<"q1">>}
\* the messages of the chat requests that run one external call at a time
StepMessages == {<<"q1">>, <<"q2">>}
\* the queries of direct get_user_context calls
Queries == {<<"q1">>, <<"q2">>}
\* outputs of the completion service for a tutor prompt
Completions == {<<"r1">>, <<"r2">>}
LessonIds == {"l1"}
LessonContents == {<<"pointers">>}
\* interactions and metadata of direct add_user_interaction calls
Notes == {<<"note">>}
Metadatas == {[type |-> "note"], [type |-> "note", user_id |-> "u1"]}
Topics == {"pointers"}
Difficulties == {3}
NumQuestionsSent == {10}
\* the scores calculate_quiz_score hands to submit_quiz_score
Scores == {100}

\* which external call of a request raises: none, the similarity search of
\* get_user_context, the completion service, or the add_texts of the record
Fates == {"none", "retrieve", "llm", "record"}

\* str(e) of the exception the failing call raises
ErrorText(failing) ==
    CASE failing = "llm" -> "model not found"
      [] failing = "retrieve" -> "embedding service unavailable"
      [] failing = "record" -> "embedding service unavailable"
      [] OTHER -> "none"

VARIABLES
    vectorstore,          \* the Chroma collection: sequence of documents
    conversation_memory,  \* TutorAgent.conversation_memory: saved exchanges
    users_db,             \* main.users_db: user_id -> profile
    last,                 \* the last call: its request, its outcome, the
                          \* context it retrieved and the prompts it sent
    recorded_scope,       \* history: for each document, the scope its writer named
    answered,             \* history: for each successful answer, what the
                          \* completion service was asked and answered
    issued,               \* history: the (user_id, name) of each create_user
    inflight,             \* per user, the chat request whose handler is under
                          \* way step by step: its position and its locals
    llm_log               \* history: per user, what the completion service
                          \* was asked and answered for the request under way

vars ==
    <<vectorstore, conversation_memory, users_db, last, recorded_scope,
      answered, issued, inflight, llm_log>>

\* ------------------------------------------------------------- helpers
Min(a, b) == IF a <= b THEN a ELSE b

Abs(n) == IF n < 0 THEN 0 - n ELSE n

\* the last n elements of s
LastN(s, n) == SubSeq(s, Len(s) - Min(n, Len(s)) + 1, Len(s))

\* Python's {**base, **md}: the keys of md override those of base
DictMerge(base, md) ==
    [key \in (DOMAIN base) \cup (DOMAIN md) |->
        IF key \in DOMAIN md THEN md[key] ELSE base[key]]

\* "\n".join(texts)
RECURSIVE Join(_)
Join(texts) ==
    IF texts = <<>> THEN <<>>
    ELSE IF Len(texts) = 1 THEN texts[1]
    ELSE texts[1] \o <<"\n">> \o Join(Tail(texts))

\* f"Q: {question}\nA: {response}"
QAText(question, response) == <<"Q: ">> \o question \o <<"\nA: ">> \o response

\* ------------------------------------------- embedding / similarity service
\* A stand-in for the embedding model: a fixed weight per fragment.
Weight(fragment) ==
    CASE fragment = "q1" -> 1
      [] fragment = "q2" -> 6
      [] fragment = "r1" -> 0
      [] fragment = "r2" -> 2
      [] fragment = "note" -> 4
      [] fragment = "pointers" -> 5
      [] OTHER -> 0

RECURSIVE Embed(_)
Embed(text) == IF text = <<>> THEN 0 ELSE Weight(Head(text)) + Embed(Tail(text))

Distance(a, b) == Abs(Embed(a) - Embed(b))

\* Chroma's where-filter: every key of the filter is present with that value
Matches(doc, filter) ==
    \A key \in DOMAIN filter :
        key \in DOMAIN doc.metadata /\ doc.metadata[key] = filter[key]

\* a ranking that puts the farthest document first
RanksBefore_Farthest(store, query, i, j) ==
    LET di == Distance(query, store[i].page_content)
        dj == Distance(query, store[j].page_content)
    IN di > dj \/ (di = dj /\ i <= j)

\* i ranks before j for the query: nearer, ties by insertion order
RanksBefore(store, query, i, j) ==
    LET di == Distance(query, store[i].page_content)
        dj == Distance(query, store[j].page_content)
    IN di < dj \/ (di = dj /\ i <= j)

RECURSIVE Nearest(_, _, _, _)
Nearest(store, query, k, S) ==
    IF k = 0 \/ S = {} THEN <<>>
    ELSE LET best == CHOOSE i \in S : \A j \in S : RanksBefore(store, query, i, j)
         IN <<store[best]>> \o Nearest(store, query, k - 1, S \ {best})

\* vectorstore.similarity_search(query, k=k, filter=filter)
similarity_search(store, query, k, filter) ==
    Nearest(store, query, k, {i \in DOMAIN store : Matches(store[i], filter)})

\* an add_texts that overwrites a stored document with the same text
add_texts_Upsert(store, text, metadata) ==
    IF \E i \in DOMAIN store : store[i].page_content = text
    THEN [i \in DOMAIN store |->
            IF store[i].page_content = text
            THEN [page_content |-> text, metadata |-> metadata] ELSE store[i]]
    ELSE Append(store, [page_content |-> text, metadata |-> metadata])

\* vectorstore.add_texts(texts=[text], metadatas=[metadata])
add_texts(store, text, metadata) ==
    Append(store, [page_content |-> text, metadata |-> metadata])

\* ------------------------------------------------------- MemoryManager
\* the metadata add_user_interaction stores
InteractionMetadata(user_id, metadata) == DictMerge([user_id |-> user_id], metadata)

\* the store after add_user_interaction(user_id, interaction, metadata)
StoreAfterInteraction(store, user_id, interaction, metadata) ==
    add_texts(store, interaction, InteractionMetadata(user_id, metadata))

\* the filter get_user_context searches with
ContextFilter(user_id) == [user_id |-> user_id]

\* the value get_user_context(user_id, query, k) returns
UserContext(store, user_id, query, k) ==
    LET results == similarity_search(store, query, k, ContextFilter(user_id))
    IN [i \in DOMAIN results |-> results[i].page_content]

\* the store after add_lesson_content(lesson_id, content)
StoreAfterLesson(store, lesson_id, content) ==
    add_texts(store, content, [type |-> "lesson", lesson_id |-> lesson_id])

\* ----------------------------------------------------------- TutorAgent
\* conversation_memory.buffer: the window of the last WindowK exchanges
Buffer(memory) == LastN(memory, WindowK)

\* tutor_prompt.format(context=..., user_level=..., question=..., history=...)
TutorPrompt(context, user_level, question, memory) ==
    [context |-> Join(context), user_level |-> user_level,
     question |-> question, history |-> Buffer(memory)]

\* an agent that saves each exchange in its one conversation memory
MemoryAfterAnswer_Saved(memory, question, response) ==
    Append(memory, [input |-> question, output |-> response])

\* the conversation memory after a successful answer: generate_response
\* calls the llm directly and never saves the exchange
MemoryAfterAnswer(memory, question, response) == memory

\* an exchange text that leaves the question out
ExchangeText_AnswerOnly(question, response) == <<"A: ">> \o response

\* the text of the Interaction generate_response records
ExchangeText(question, response) == QAText(question, response)

\* the metadata generate_response passes to add_user_interaction
ExchangeMetadata(user_level) == [type |-> "qa", level |-> user_level]

\* a generate_response whose failing record call has already written
generate_response_PartialWrite(store, memory, user_id, question, user_level, failing, completion) ==
    LET context == UserContext(store, user_id, question, DefaultK)
        prompt == TutorPrompt(context, user_level, question, memory)
    IN  IF failing = "retrieve" THEN
            [raised |-> TRUE, error |-> ErrorText(failing), value |-> <<>>,
             context |-> <<>>, llm_calls |-> <<>>,
             store |-> store, memory |-> memory]
        ELSE
            [raised |-> failing # "none", error |-> ErrorText(failing),
             value |-> IF failing = "none" THEN completion ELSE <<>>,
             context |-> context, llm_calls |-> <<prompt>>,
             store |-> IF failing = "llm" THEN store
                       ELSE StoreAfterInteraction(store, user_id,
                                ExchangeText(question, completion),
                                ExchangeMetadata(user_level)),
             memory |-> memory]

\* generate_response(user_id, question, user_level) where the completion
\* service would answer `completion` and `failing` says which call raises.
generate_response(store, memory, user_id, question, user_level, failing, completion) ==
    LET context == UserContext(store, user_id, question, DefaultK)
        prompt == TutorPrompt(context, user_level, question, memory)
        response == completion
    IN  IF failing = "retrieve" THEN
            [raised |-> TRUE, error |-> ErrorText(failing), value |-> <<>>,
             context |-> <<>>, llm_calls |-> <<>>,
             store |-> store, memory |-> memory]
        ELSE IF failing \in {"llm", "record"} THEN
            [raised |-> TRUE, error |-> ErrorText(failing), value |-> <<>>,
             context |-> context, llm_calls |-> <<prompt>>,
             store |-> store, memory |-> memory]
        ELSE
            [raised |-> FALSE, error |-> "none", value |-> response,
             context |-> context, llm_calls |-> <<prompt>>,
             store |-> StoreAfterInteraction(store, user_id,
                          ExchangeText(question, response),
                          ExchangeMetadata(user_level)),
             memory |-> MemoryAfterAnswer(memory, question, response)]

\* ------------------------------------------------------------- state
NoCall ==
    [op |-> "none", request |-> <<>>, fate |-> "none", status |-> 0,
     body |-> <<>>, llm_calls |-> <<>>]

\* no handler under way: no locals
Idle ==
    [pc |-> "idle", question |-> <<>>, user_level |-> 0, context |-> <<>>,
     response |-> <<>>]

Init ==
    /\ inflight = [u \in UserIds |-> Idle]
    /\ llm_log = [u \in UserIds |-> <<>>]
    /\ vectorstore = <<>>
    /\ conversation_memory = <<>>
    /\ users_db = [u \in {} |-> 0]
    /\ last = NoCall
    /\ recorded_scope = <<>>
    /\ answered = <<>>
    /\ issued = <<>>

\* a lookup that gives an unknown user level 0
LevelOf_UnknownIsZero(db, user_id) ==
    IF user_id \in DOMAIN db THEN db[user_id].current_level ELSE 0

\* users_db.get(user_id, {}).get("current_level", 1)
LevelOf(db, user_id) ==
    IF user_id \in DOMAIN db THEN db[user_id].current_level ELSE DefaultLevel

\* what the completion service can return to a request: nothing when the
\* request fails before the service answers
CompletionsOf(failing) ==
    IF failing \in {"retrieve", "llm"} THEN {<<>>} ELSE Completions

\* a handler that hides the error's text
ChatResponse_Swallows(r) ==
    IF r.raised THEN [status |-> 500, body |-> [detail |-> "Internal Server Error"]]
    ELSE [status |-> 200, body |-> [response |-> r.value]]

\* the response of POST /api/chat
ChatResponse(r) ==
    IF r.raised THEN [status |-> 500, body |-> [detail |-> r.error]]
    ELSE [status |-> 200, body |-> [response |-> r.value]]

\* POST /api/chat {message, user_id}
chat ==
    \E user_id \in UserIds, message \in Messages, failing \in Fates :
      \E completion \in CompletionsOf(failing) :
        LET user_level == LevelOf(users_db, user_id)
            r == generate_response(vectorstore, conversation_memory, user_id,
                                   message, user_level, failing, completion)
            http == ChatResponse(r)
        IN  /\ failing = "none" => Len(vectorstore) < MaxStore
            /\ vectorstore' = r.store
            /\ conversation_memory' = r.memory
            /\ last' = [op |-> "chat",
                        request |-> [user_id |-> user_id, message |-> message,
                                     user_level |-> user_level,
                                     completion |-> completion],
                        fate |-> failing,
                        status |-> http.status, body |-> http.body,
                        context |-> r.context, llm_calls |-> r.llm_calls]
            /\ recorded_scope' =
                 IF r.store # vectorstore THEN Append(recorded_scope, user_id)
                 ELSE recorded_scope
            /\ answered' =
                 IF r.raised THEN answered
                 ELSE Append(answered, [user_id |-> user_id, question |-> message,
                                        user_level |-> user_level,
                                        response |-> completion])
            /\ UNCHANGED <<users_db, issued, inflight, llm_log>>

\* ----------------------------------------------------------- user table
\* UserProfile(user_id=..., name=...).dict(); the created_at and last_active
\* timestamps are left out: nothing reads them.
NewProfile(user_id, name) ==
    [user_id |-> user_id, name |-> name, current_level |-> DefaultLevel,
     completed_lessons |-> <<>>, quiz_scores |-> <<>>,
     learning_preferences |-> <<>>]

\* the values str(uuid.uuid4()) can take: an id no earlier call has produced
FreshIds(db) == UserIds \ DOMAIN db

\* a create that rebuilds the table with the new user only
DbAfterCreate_Resets(db, user_id, name) ==
    [u \in {user_id} |-> NewProfile(user_id, name)]

\* users_db[user_id] = user.dict()
DbAfterCreate(db, user_id, name) ==
    [u \in (DOMAIN db) \cup {user_id} |->
        IF u = user_id THEN NewProfile(user_id, name) ELSE db[u]]

\* POST /api/users?name=...
create_user ==
    \E name \in Names, user_id \in FreshIds(users_db) :
        /\ users_db' = DbAfterCreate(users_db, user_id, name)
        /\ last' = [op |-> "create_user", request |-> [name |-> name],
                    fate |-> "none", status |-> 200,
                    body |-> [user_id |-> user_id], llm_calls |-> <<>>]
        /\ issued' = Append(issued, [user_id |-> user_id, name |-> name])
        /\ UNCHANGED <<vectorstore, conversation_memory, recorded_scope, answered, inflight, llm_log>>

\* the response of GET /api/users/{user_id}
GetUserResponse(db, user_id) ==
    IF user_id \notin DOMAIN db
    THEN [status |-> 404, body |-> [detail |-> "User not found"]]
    ELSE [status |-> 200, body |-> db[user_id]]

\* GET /api/users/{user_id}
get_user ==
    \E user_id \in UserIds :
        LET r == GetUserResponse(users_db, user_id)
        IN  /\ last' = [op |-> "get_user", request |-> [user_id |-> user_id],
                        fate |-> "none", status |-> r.status, body |-> r.body,
                        llm_calls |-> <<>>]
            /\ UNCHANGED <<vectorstore, conversation_memory, users_db,
                           recorded_scope, answered, issued, inflight, llm_log>>

\* ------------------------------------------------------------------ quiz
\* A quiz text is a sequence of lines, a line a pair <<prefix, rest>>, in the
\* format the quiz prompt asks for.
QuizBlock(letter) ==
    << <<"Q:", "What is a pointer?">>, <<"A)", "x">>, <<"B)", "y">>,
       <<"C)", "z">>, <<"D)", "w">>, <<"Correct:", letter>>,
       <<"Explanation:", "It holds an address.">>, <<"---", "">> >>

\* the same block without its Correct: line
QuizBlockNoCorrect ==
    << <<"Q:", "What is an array?">>, <<"A)", "x">>, <<"B)", "y">>,
       <<"C)", "z">>, <<"D)", "w">>,
       <<"Explanation:", "It is contiguous.">>, <<"---", "">> >>

\* outputs of the completion service for a quiz prompt
QuizTexts ==
    {QuizBlock("B"), QuizBlock("D"), QuizBlockNoCorrect,
     QuizBlockNoCorrect \o QuizBlock("B")}

\* the f-string quiz_prompt of TutorAgent.generate_quiz
QuizPrompt(topic, difficulty, num_questions) ==
    [num_questions |-> num_questions, topic |-> topic, difficulty |-> difficulty]

\* TutorAgent._parse_quiz_response(response)
_parse_quiz_response(response) == <<>>

\* TutorAgent.generate_quiz(topic, difficulty, num_questions)
agent_generate_quiz(topic, difficulty, num_questions, failing, completion) ==
    LET quiz_prompt == QuizPrompt(topic, difficulty, num_questions)
    IN  IF failing = "llm" THEN
            [raised |-> TRUE, error |-> ErrorText(failing), value |-> <<>>,
             llm_calls |-> <<quiz_prompt>>]
        ELSE
            [raised |-> FALSE, error |-> "none",
             value |-> _parse_quiz_response(completion),
             llm_calls |-> <<quiz_prompt>>]

\* the response of POST /api/quiz/{topic}
QuizResponse(r) ==
    IF r.raised THEN [status |-> 500, body |-> [detail |-> r.error]]
    ELSE [status |-> 200, body |-> [quiz |-> r.value]]

\* what the completion service can return to a quiz request
QuizCompletionsOf(failing) == IF failing = "llm" THEN {<<>>} ELSE QuizTexts

\* POST /api/quiz/{topic}?difficulty=&num_questions= ; the handler declares
\* topic and difficulty only, so a num_questions parameter is not read.
generate_quiz ==
    \E topic \in Topics, difficulty \in Difficulties,
       num_questions \in NumQuestionsSent, failing \in {"none", "llm"} :
      \E completion \in QuizCompletionsOf(failing) :
        LET r == agent_generate_quiz(topic, difficulty, DefaultNumQuestions,
                                     failing, completion)
            http == QuizResponse(r)
        IN  /\ last' = [op |-> "generate_quiz",
                        request |-> [topic |-> topic, difficulty |-> difficulty,
                                     num_questions |-> num_questions,
                                     completion |-> completion],
                        fate |-> failing,
                        status |-> http.status, body |-> http.body,
                        llm_calls |-> r.llm_calls]
            /\ UNCHANGED <<vectorstore, conversation_memory, users_db,
                           recorded_scope, answered, issued, inflight, llm_log>>

\* ------------------------------------- chat, one external call at a time
\* The handler of POST /api/chat as the three external calls it makes in
\* turn, each an atomic step, with the locals of generate_response kept per
\* request. Requests of different users may interleave between the calls.

\* a record step that reads the response from a field the requests share:
\* another request that has its response ready has overwritten it
ResponseToRecord_Shared(user_id) ==
    IF \E v \in UserIds \ {user_id} : inflight[v].pc = "generated"
    THEN inflight[CHOOSE v \in UserIds \ {user_id} :
                      inflight[v].pc = "generated"].response
    ELSE inflight[user_id].response

\* the response the record step writes: the local of its own request
ResponseToRecord(user_id) == inflight[user_id].response

\* the 500 answer of a step that raised
StepFailed(op, user_id, failing) ==
    [op |-> op, request |-> [user_id |-> user_id], fate |-> failing,
     status |-> 500, body |-> [detail |-> ErrorText(failing)],
     llm_calls |-> <<>>]

\* a step after which the handler is still under way
StepDone(op, user_id) ==
    [op |-> op, request |-> [user_id |-> user_id], fate |-> "none",
     status |-> 0, body |-> <<>>, llm_calls |-> <<>>]

\* chat up to context = self.memory_manager.get_user_context(user_id, question)
chat_retrieve ==
    \E user_id \in UserIds, message \in StepMessages,
       failing \in {"none", "retrieve"} :
        /\ inflight[user_id].pc = "idle"
        /\ inflight' =
             IF failing = "retrieve" THEN inflight
             ELSE [inflight EXCEPT ![user_id] =
                      [pc |-> "retrieved", question |-> message,
                       user_level |-> LevelOf(users_db, user_id),
                       context |-> UserContext(vectorstore, user_id, message,
                                               DefaultK),
                       response |-> <<>>]]
        /\ last' = IF failing = "retrieve"
                   THEN StepFailed("chat_retrieve", user_id, failing)
                   ELSE StepDone("chat_retrieve", user_id)
        /\ UNCHANGED <<vectorstore, conversation_memory, users_db,
                       recorded_scope, answered, issued, llm_log>>

\* the prompt format and response = self.llm(formatted_prompt)
chat_complete ==
    \E user_id \in UserIds, failing \in {"none", "llm"} :
      \E completion \in CompletionsOf(failing) :
        LET req == inflight[user_id]
            prompt == TutorPrompt(req.context, req.user_level, req.question,
                                  conversation_memory)
        IN  /\ req.pc = "retrieved"
            /\ inflight' =
                 [inflight EXCEPT ![user_id] =
                     IF failing = "llm" THEN Idle
                     ELSE [req EXCEPT !.pc = "generated", !.response = completion]]
            /\ llm_log' =
                 IF failing = "llm" THEN llm_log
                 ELSE [llm_log EXCEPT ![user_id] =
                          [user_id |-> user_id, question |-> prompt.question,
                           user_level |-> prompt.user_level,
                           response |-> completion]]
            /\ last' = IF failing = "llm"
                       THEN StepFailed("chat_complete", user_id, failing)
                       ELSE StepDone("chat_complete", user_id)
            /\ UNCHANGED <<vectorstore, conversation_memory, users_db,
                           recorded_scope, answered, issued>>

\* self.memory_manager.add_user_interaction(...) and the return
chat_record ==
    \E user_id \in UserIds, failing \in {"none", "record"} :
        LET req == inflight[user_id]
            response == ResponseToRecord(user_id)
        IN  /\ req.pc = "generated"
            /\ failing = "none" => Len(vectorstore) < MaxStore
            /\ inflight' = [inflight EXCEPT ![user_id] = Idle]
            /\ llm_log' = [llm_log EXCEPT ![user_id] = <<>>]
            /\ IF failing = "record"
               THEN /\ last' = StepFailed("chat_record", user_id, failing)
                    /\ UNCHANGED <<vectorstore, conversation_memory,
                                   recorded_scope, answered>>
               ELSE /\ vectorstore' =
                         StoreAfterInteraction(vectorstore, user_id,
                             ExchangeText(req.question, response),
                             ExchangeMetadata(req.user_level))
                    /\ conversation_memory' =
                         MemoryAfterAnswer(conversation_memory, req.question,
                                           response)
                    /\ recorded_scope' = Append(recorded_scope, user_id)
                    /\ answered' = Append(answered, llm_log[user_id])
                    /\ last' = [op |-> "chat_record",
                                request |-> [user_id |-> user_id],
                                fate |-> "none", status |-> 200,
                                body |-> [response |-> response],
                                llm_calls |-> <<>>]
            /\ UNCHANGED <<users_db, issued>>

\* ------------------------------------------------------------ frontend
\* the path segment after /api/quiz/ of the URL submit_quiz_score posts to;
\* the only route it matches is POST /api/quiz/{topic}
SubmitPathTopic == "submit"

\* frontend submit_quiz_score(user_id, topic, score): POST /api/quiz/submit
\* with the score as JSON body, which no handler reads; returns whether the
\* status is 200.
submit_quiz_score ==
    \E user_id \in UserIds, topic \in Topics, score \in Scores,
       failing \in {"none", "llm"} :
      \E completion \in QuizCompletionsOf(failing) :
        LET r == agent_generate_quiz(SubmitPathTopic, DefaultDifficulty,
                                     DefaultNumQuestions, failing, completion)
            http == QuizResponse(r)
        IN  /\ last' = [op |-> "submit_quiz_score",
                        request |-> [user_id |-> user_id, topic |-> topic,
                                     score |-> score],
                        fate |-> failing,
                        status |-> http.status, body |-> (http.status = 200),
                        llm_calls |-> r.llm_calls]
            /\ UNCHANGED <<vectorstore, conversation_memory, users_db,
                           recorded_scope, answered, issued, inflight, llm_log>>

\* ------------------------------------------- direct MemoryManager calls
\* memory_manager.add_user_interaction(user_id, interaction, metadata)
add_user_interaction ==
    \E user_id \in UserIds, interaction \in Notes, metadata \in Metadatas :
        /\ Len(vectorstore) < MaxStore
        /\ vectorstore' =
             StoreAfterInteraction(vectorstore, user_id, interaction, metadata)
        /\ recorded_scope' = Append(recorded_scope, user_id)
        /\ last' = [op |-> "add_user_interaction",
                    request |-> [user_id |-> user_id, interaction |-> interaction,
                                 metadata |-> metadata],
                    fate |-> "none", status |-> 0,
                    body |-> <<>>, llm_calls |-> <<>>]
        /\ UNCHANGED <<conversation_memory, users_db, answered, issued, inflight, llm_log>>

\* memory_manager.add_lesson_content(lesson_id, content)
add_lesson_content ==
    \E lesson_id \in LessonIds, content \in LessonContents :
        /\ Len(vectorstore) < MaxStore
        /\ vectorstore' = StoreAfterLesson(vectorstore, lesson_id, content)
        /\ recorded_scope' = Append(recorded_scope, "lesson")
        /\ last' = [op |-> "add_lesson_content",
                    request |-> [lesson_id |-> lesson_id, content |-> content],
                    fate |-> "none", status |-> 0,
                    body |-> <<>>, llm_calls |-> <<>>]
        /\ UNCHANGED <<conversation_memory, users_db, answered, issued, inflight, llm_log>>

\* memory_manager.get_user_context(user_id, query, k)
get_user_context ==
    \E user_id \in UserIds, query \in Queries, k \in 1..MaxK :
        /\ last' = [op |-> "get_user_context",
                    request |-> [user_id |-> user_id, query |-> query, k |-> k],
                    fate |-> "none", status |-> 0,
                    body |-> UserContext(vectorstore, user_id, query, k),
                    llm_calls |-> <<>>]
        /\ UNCHANGED <<vectorstore, conversation_memory, users_db,
                       recorded_scope, answered, issued, inflight, llm_log>>

\* ------------------------------------------------------- specifications
\* The deployed program: the HTTP handlers of api/main.py.
Next ==
    \/ chat
    \/ create_user
    \/ get_user
    \/ generate_quiz

Spec == Init /\ [][Next]_vars

\* The deployed program with the frontend's score submission.
NextFrontend ==
    \/ chat
    \/ create_user
    \/ get_user
    \/ generate_quiz
    \/ submit_quiz_score

SpecFrontend == Init /\ [][NextFrontend]_vars

\* Concurrent chat requests of different users, interleaved at every
\* external call. The event loop of the deployed program runs one handler at
\* a time (Spec); its schedules are among these.
NextConcurrent ==
    \/ chat_retrieve
    \/ chat_complete
    \/ chat_record

SpecConcurrent == Init /\ [][NextConcurrent]_vars

\* The MemoryManager under any caller: its three methods called directly,
\* interleaved with chat requests.
NextMemory ==
    \/ chat
    \/ add_user_interaction
    \/ add_lesson_content
    \/ get_user_context

SpecMemory == Init /\ [][NextMemory]_vars

\* ================================================================ claims
Range(seq) == {seq[i] : i \in DOMAIN seq}

\* the owner scope a document is stored under: its user_id metadata field
StoredScope(doc) ==
    IF "user_id" \in DOMAIN doc.metadata THEN doc.metadata["user_id"] ELSE "lesson"

\* the texts a store holds under a user's scope
StoredTexts(store, user_id) ==
    {store[j].page_content :
        j \in {i \in DOMAIN store : StoredScope(store[i]) = user_id}}

\* the number of documents a store holds under a user's scope
StoredCount(store, user_id) ==
    Cardinality({i \in DOMAIN store : StoredScope(store[i]) = user_id})

\* C1: get_user_context(A, query, k) returns only texts that some call
\* recorded for A: every returned text is the text of a document whose writer
\* named A (add_user_interaction(A, ...) or a chat of A), never only of
\* documents written for another user or as lesson content.
C1_ContextOnlyFromOwnScope ==
    last.op = "get_user_context" =>
        \A t \in Range(last.body) :
            \E j \in DOMAIN vectorstore :
                /\ vectorstore[j].page_content = t
                /\ recorded_scope[j] = last.request.user_id

\* the result list `res` of a retrieval (owner, query, k) from `store` is
\* the k nearest of the owner's stored texts, nearest first
IsTopK(store, res, owner, query, k) ==
    /\ Len(res) = Min(k, StoredCount(store, owner))
    /\ Range(res) \subseteq StoredTexts(store, owner)
    /\ \A i \in DOMAIN res : \A j \in DOMAIN res :
          i < j => Distance(query, res[i]) <= Distance(query, res[j])
    /\ \A t \in StoredTexts(store, owner) : \A i \in DOMAIN res :
          t \notin Range(res) => Distance(query, res[i]) <= Distance(query, t)

\* the store a chat request read its context from: the store without the
\* document the request itself recorded
StoreReadBy(call) ==
    IF call.status = 200 THEN SubSeq(vectorstore, 1, Len(vectorstore) - 1)
    ELSE vectorstore

\* C2: get_user_context(owner, query, k) returns min(k, n) texts, n the
\* number of records stored for the owner (so none when n = 0), the nearest
\* to the query and nearest first; the tutor retrieves with k = 5.
C2_ContextIsTopK ==
    /\ last.op = "get_user_context" =>
          IsTopK(vectorstore, last.body, last.request.user_id,
                 last.request.query, last.request.k)
    /\ (last.op = "chat" /\ last.llm_calls # <<>>) =>
          IsTopK(StoreReadBy(last), last.context, last.request.user_id,
                 last.request.message, 5)

\* C2 witness: a retrieval with k = 1 for an owner with two records at
\* different distances returned the nearer one only.
C2_Witness ==
    /\ last.op = "get_user_context"
    /\ last.request.k = 1
    /\ StoredCount(vectorstore, last.request.user_id) = 2
    /\ Len(last.body) = 1
    /\ \E t \in StoredTexts(vectorstore, last.request.user_id) :
          Distance(last.request.query, t)
              > Distance(last.request.query, last.body[1])

\* C3: a successful generate_response returns the completion unchanged and
\* records one Interaction "Q: <question>\nA: <r>" under user_id with
\* type=qa and level=user_level, which a retrieval for that user returns;
\* the store holds one document per successful answer.
C3_AnswerRecorded ==
    /\ Len(vectorstore) = Len(answered)
    /\ (last.op = "chat" /\ last.status = 200) =>
          LET text == <<"Q: ">> \o last.request.message
                          \o <<"\nA: ">> \o last.request.completion
          IN  /\ last.body = [response |-> last.request.completion]
              /\ vectorstore # <<>>
              /\ vectorstore[Len(vectorstore)] =
                    [page_content |-> text,
                     metadata |-> [user_id |-> last.request.user_id,
                                   type |-> "qa",
                                   level |-> last.request.user_level]]
              /\ \E k \in 1..Len(vectorstore) :
                    text \in Range(UserContext(vectorstore, last.request.user_id,
                                               last.request.message, k))

\* C3 witness: a second successful answer, after another user's.
C3_Witness ==
    /\ last.op = "chat"
    /\ last.status = 200
    /\ Len(vectorstore) = 2
    /\ answered[1].user_id # last.request.user_id

\* the exchange a successful answer would save in the window
Exchange(a) == [input |-> a.question, output |-> a.response]

\* C4: after n successful answers the conversation window holds the most
\* recent min(n, 10) exchanges, oldest first.
C4_WindowHoldsRecentExchanges ==
    LET n == Len(answered)
        m == Min(n, 10)
    IN  Buffer(conversation_memory) = [i \in 1..m |-> Exchange(answered[n - m + i])]

C6_FailureLeavesNoPartialState ==
    [][(last'.op = "chat" /\ last'.fate # "none") =>
          /\ vectorstore' = vectorstore
          /\ conversation_memory' = conversation_memory
          /\ "response" \notin DOMAIN last'.body]_vars

\* C6 witness: the record call of a request failed while the store already
\* held a document.
C6_Witness ==
    /\ last.op = "chat"
    /\ last.fate = "record"
    /\ Len(vectorstore) = 1

\* C7: POST /api/chat answers 200 with a body holding "response" when no
\* step raises, and 500 with the raised error's text as detail when context
\* retrieval, completion or recording raises.
C7_ChatStatus ==
    last.op = "chat" =>
        /\ last.fate = "none" =>
              last.status = 200 /\ DOMAIN last.body = {"response"}
        /\ last.fate = "llm" =>
              last.status = 500 /\ last.body = [detail |-> "model not found"]
        /\ last.fate \in {"retrieve", "record"} =>
              /\ last.status = 500
              /\ last.body = [detail |-> "embedding service unavailable"]

\* C7 witness: a request whose completion call raised was answered 500.
C7_Witness ==
    /\ last.op = "chat"
    /\ last.fate = "llm"
    /\ last.status = 500

\* the profile a create with this name stores
CreatedProfile(user_id, name) ==
    [user_id |-> user_id, name |-> name, current_level |-> 1,
     completed_lessons |-> <<>>, quiz_scores |-> <<>>,
     learning_preferences |-> <<>>]

\* C8: the ids returned by POST /api/users are pairwise distinct, every
\* created profile stays as created (the given name, level 1, nothing
\* completed, no scores), and GET /api/users/{id} answers 200 with that
\* profile if id was returned by an earlier create and 404 otherwise.
C8_UsersCreatedAndFound ==
    /\ \A i \in DOMAIN issued : \A j \in DOMAIN issued :
          issued[i].user_id = issued[j].user_id => i = j
    /\ \A i \in DOMAIN issued :
          /\ issued[i].user_id \in DOMAIN users_db
          /\ users_db[issued[i].user_id] =
                CreatedProfile(issued[i].user_id, issued[i].name)
    /\ last.op = "create_user" =>
          last.body = [user_id |-> issued[Len(issued)].user_id]
    /\ last.op = "get_user" =>
          IF \E i \in DOMAIN issued : issued[i].user_id = last.request.user_id
          THEN /\ last.status = 200
               /\ \E i \in DOMAIN issued :
                     last.body = CreatedProfile(last.request.user_id, issued[i].name)
          ELSE last.status = 404

\* C8 witness: the profile of the first of two created users was fetched.
C8_Witness ==
    /\ last.op = "get_user"
    /\ last.status = 200
    /\ Len(issued) = 2
    /\ last.request.user_id = issued[1].user_id

\* the zero-based index of an option letter
LetterIndex(letter) ==
    CASE letter = "A" -> 0 [] letter = "B" -> 1 [] letter = "C" -> 2 [] OTHER -> 3

\* the record a well-formed block with this Correct letter stands for
QuizRecord(letter) ==
    [question |-> "What is a pointer?", options |-> <<"x", "y", "z", "w">>,
     correct_answer |-> LetterIndex(letter),
     explanation |-> "It holds an address."]

\* C9: for a completion that is one well-formed block, generate_quiz returns
\* exactly one record: the question, its 4 options, the zero-based index of
\* the Correct letter and the explanation.
C9_WellFormedBlockParsed ==
    (last.op = "generate_quiz" /\ last.fate = "none") =>
        \A letter \in {"A", "B", "C", "D"} :
            last.request.completion = QuizBlock(letter) =>
                last.body = [quiz |-> <<QuizRecord(letter)>>]

\* C10: a block without a Correct: line yields no record and no failure, and
\* the request is answered 200 with the records of the remaining blocks.
C10_MalformedBlockSkipped ==
    (last.op = "generate_quiz" /\ last.fate = "none") =>
        /\ last.status = 200
        /\ last.request.completion = QuizBlockNoCorrect =>
              last.body = [quiz |-> <<>>]
        /\ last.request.completion = QuizBlockNoCorrect \o QuizBlock("B") =>
              last.body = [quiz |-> <<QuizRecord("B")>>]

\* C11: the quiz prompt sent to the completion service asks for the number
\* of questions, the topic and the difficulty of the request.
C11_QuizPromptFollowsRequest ==
    last.op = "generate_quiz" =>
        last.llm_calls =
            <<[num_questions |-> last.request.num_questions,
               topic |-> last.request.topic,
               difficulty |-> last.request.difficulty]>>

\* C13: the store is append-only: a step leaves every stored document as it
\* was, an add_user_interaction or add_lesson_content call adds exactly one
\* document, and no step adds more than one.
C13_StoreAppendOnly ==
    [][/\ Len(vectorstore') >= Len(vectorstore)
       /\ Len(vectorstore') <= Len(vectorstore) + 1
       /\ SubSeq(vectorstore', 1, Len(vectorstore)) = vectorstore
       /\ (/\ last'.op \in {"add_user_interaction", "add_lesson_content"}
           /\ recorded_scope' # recorded_scope)
             => Len(vectorstore') = Len(vectorstore) + 1]_vars

\* C13 witness: a lesson was added to a store that held an interaction.
C13_Witness ==
    /\ last.op = "add_lesson_content"
    /\ Len(vectorstore) = 2
    /\ StoredScope(vectorstore[1]) \in UserIds

\* C15: the document add_user_interaction(user_id, interaction, metadata)
\* stores has the user_id argument as its user_id field, whatever keys the
\* metadata holds.
C15_StoredUserIdIsArgument ==
    last.op = "add_user_interaction" =>
        /\ vectorstore # <<>>
        /\ StoredScope(vectorstore[Len(vectorstore)]) = last.request.user_id

\* C16: /api/chat passes level 1 to the tutor for every user_id: a request of
\* an unregistered user is answered like any other, at level 1, and its
\* exchange is recorded under that id; every profile keeps current_level 1.
C16_ChatLevelIsOne ==
    /\ \A u \in DOMAIN users_db : users_db[u].current_level = 1
    /\ last.op = "chat" =>
          /\ last.request.user_level = 1
          /\ \A p \in Range(last.llm_calls) : p.user_level = 1
          /\ last.fate = "none" =>
                /\ last.status = 200
                /\ vectorstore # <<>>
                /\ vectorstore[Len(vectorstore)].metadata =
                      [user_id |-> last.request.user_id, type |-> "qa", level |-> 1]

\* C16 witness: a user that was never created was answered while another
\* user was registered.
C16_Witness ==
    /\ last.op = "chat"
    /\ last.status = 200
    /\ last.request.user_id \notin DOMAIN users_db
    /\ users_db # <<>>

\* C14: after submit_quiz_score(user_id, topic, score) reported success, the
\* profile of that user maps the topic to the score in quiz_scores, and the
\* submission made no quiz prompt reach the completion service.
C14_ScoreStored ==
    (/\ last.op = "submit_quiz_score"
     /\ last.body = TRUE
     /\ last.request.user_id \in DOMAIN users_db) =>
        /\ last.llm_calls = <<>>
        /\ LET scores == users_db[last.request.user_id].quiz_scores
           IN  /\ last.request.topic \in DOMAIN scores
               /\ scores[last.request.topic] = last.request.score

\* the document a logged answer of the completion service stands for
LoggedDocument(e) ==
    [page_content |-> <<"Q: ">> \o e.question \o <<"\nA: ">> \o e.response,
     metadata |-> [user_id |-> e.user_id, type |-> "qa", level |-> e.user_level]]

\* C12: under any interleaving of the calls of concurrent chat requests,
\* every stored Interaction is whole and pairs the question of one request
\* with the response the completion service gave to that request, under
\* that request's user_id; and every text a request retrieved is the text of
\* such a document stored under its own user_id.
C12_RecordsWholeAndPaired ==
    /\ Len(vectorstore) = Len(answered)
    /\ \A j \in DOMAIN vectorstore : vectorstore[j] = LoggedDocument(answered[j])
    /\ \A u \in UserIds : \A t \in Range(inflight[u].context) :
          \E j \in DOMAIN vectorstore :
              /\ vectorstore[j] = LoggedDocument(answered[j])
              /\ answered[j].user_id = u
              /\ vectorstore[j].page_content = t

\* C12 witness: two requests interleaved: one user's exchange was recorded
\* while the other user's request, which had retrieved context of its own,
\* was waiting with a different question and a different response.
C12_Witness ==
    \E u \in UserIds : \E v \in UserIds \ {u} :
        /\ last.op = "chat_record"
        /\ last.status = 200
        /\ last.request.user_id = u
        /\ inflight[v].pc = "generated"
        /\ inflight[v].context # <<>>
        /\ inflight[v].response # last.body.response
        /\ inflight[v].question # answered[Len(answered)].question
====
